---- MODULE Spec2Model ----
(***************************************************************************)
(* Model of ItemMatcher ("SAP Project/Try1.py"): the embedding cache       *)
(* (_load_or_create_cache), search, the feedback ledger                    *)
(* (log_search_feedback) and the session loop of __main__.                 *)
(* Files are modelled by their content; every file operation has the       *)
(* outcomes the operating system can produce (success or an exception).    *)
(***************************************************************************)
EXTENDS Integers, Sequences, FiniteSets, TLC

VARIABLES
    logFile,      \* content of self.log_path on disk
    lastLog,      \* the last log_search_feedback call: inputs, outcomes
    excel,        \* the catalog source on disk: rows and modification time
    data,         \* self.data
    embeddings,   \* self.embeddings
    cacheFile,    \* content of self.cache_path on disk
    lastCache,    \* the last _load_or_create_cache call
    prevCache,    \* the call before the last one, when it had the same
                  \* catalog and freshness token as the last one
    lastSearch,   \* the last search call on the constructed matcher
    session,      \* the __main__ loop: its position and what it has called
    writers       \* processes inside log_search_feedback on the same ledger

ledgerVars == <<logFile, lastLog>>
cacheVars == <<excel, data, embeddings, cacheFile, lastCache, prevCache>>
searchVars == <<lastSearch>>
sessionVars == <<session>>
writerVars == <<writers>>
vars == <<logFile, lastLog, excel, data, embeddings, cacheFile, lastCache, prevCache, lastSearch, session, writers>>

(***************************************************************************)
(* Bounds                                                                  *)
(***************************************************************************)
MaxLedger == 2
MaxRows == 2
MaxMtime == 2

(***************************************************************************)
(* Values                                                                  *)
(***************************************************************************)
\* Python's None where a string is expected (no user code, no top code).
None == "<None>"

Queries == {"pump"}

Result(code, desc, score) ==
    [ItemCode |-> code, ItemDescription |-> desc, Score |-> score]

\* Result lists handed to log_search_feedback (scores are in 1/10000).
ResultLists ==
    { <<>>,
      <<Result("A", "d1", 9000), Result("B", "d2", 7000)>>,
      <<Result("", "d1", 9000), Result("B", "d2", 7000)>>,
      <<Result("skip", "d1", 9000), Result("A", "d2", 7000)>> }

\* Values of user_selected_item_code.
UserCodes == {None, "", "skip", "SKIP", "A", "B", "Z"}

\* str.lower() on the strings of the model.
Lower(s) ==
    CASE s = "SKIP" -> "skip"
      [] s = "EXIT" -> "exit"
      [] s = "N/A" -> "n/a"
      [] s = "A" -> "a"
      [] s = "B" -> "b"
      [] s = "Z" -> "z"
      [] OTHER -> s

\* Python truthiness of an optional string.
Truthy(s) == s # None /\ s # ""

(***************************************************************************)
(* log_search_feedback: classification                                     *)
(***************************************************************************)
SuggestedTopCode(search_results) ==
    IF search_results # <<>> THEN search_results[1].ItemCode ELSE None

SuggestedCodes(search_results) ==
    { search_results[i].ItemCode : i \in 1..Len(search_results) }

\* A classification that gives "no results" precedence over the user code.
FeedbackStatusRule1First(search_results, user_selected_item_code) ==
    LET top == SuggestedTopCode(search_results) IN
    IF search_results = <<>> THEN "No matches suggested"
    ELSE IF Truthy(user_selected_item_code)
    THEN IF Lower(user_selected_item_code) = "skip"
         THEN "Feedback skipped by user"
         ELSE IF user_selected_item_code = top
         THEN "Top match confirmed by user"
         ELSE IF user_selected_item_code \in SuggestedCodes(search_results)
         THEN "Other suggested match selected by user"
         ELSE "New code provided by user"
    ELSE IF Truthy(top)
    THEN "No specific feedback given (top match exists)"
    ELSE "No matches suggested"

\* A classification that compares 'skip' case-sensitively.
FeedbackStatusCaseSensitive(search_results, user_selected_item_code) ==
    LET top == SuggestedTopCode(search_results) IN
    IF Truthy(user_selected_item_code)
    THEN IF user_selected_item_code = "skip"
         THEN "Feedback skipped by user"
         ELSE IF user_selected_item_code = top
         THEN "Top match confirmed by user"
         ELSE IF user_selected_item_code \in SuggestedCodes(search_results)
         THEN "Other suggested match selected by user"
         ELSE "New code provided by user"
    ELSE IF Truthy(top)
    THEN "No specific feedback given (top match exists)"
    ELSE "No matches suggested"

FeedbackStatus(search_results, user_selected_item_code) ==
    LET top == SuggestedTopCode(search_results)
        initial == IF Truthy(top) THEN "No feedback given"
                   ELSE "No matches suggested"
    IN
    IF Truthy(user_selected_item_code)
    THEN IF Lower(user_selected_item_code) = "skip"
         THEN "Feedback skipped by user"
         ELSE IF user_selected_item_code = top
         THEN "Top match confirmed by user"
         ELSE IF user_selected_item_code \in SuggestedCodes(search_results)
         THEN "Other suggested match selected by user"
         ELSE "New code provided by user"
    ELSE IF Truthy(top) /\ ~Truthy(user_selected_item_code)
    THEN "No specific feedback given (top match exists)"
    ELSE initial

\* The timestamp field is wall-clock text and takes no part in any decision.
LogEntry(query, search_results, user_selected_item_code) ==
    [query |-> query,
     suggested_top_match_code |-> SuggestedTopCode(search_results),
     all_suggested_results |-> search_results,
     user_selected_item_code |-> user_selected_item_code,
     feedback_status |-> FeedbackStatus(search_results, user_selected_item_code)]

(***************************************************************************)
(* log_search_feedback: persistence                                        *)
(***************************************************************************)
LogAbsent == [kind |-> "absent", logs |-> <<>>]
LogCorrupt == [kind |-> "corrupt", logs |-> <<>>]
LogNotAList == [kind |-> "notalist", logs |-> <<>>]
LogList(logs) == [kind |-> "list", logs |-> logs]

\* Outcomes of open(log_path, 'rb') + pickle.load: "ok", or the exception
\* raised: EOFError on a truncated file, OSError when the file cannot be
\* opened or read.
LogReadOutcomes(file) ==
    IF file.kind = "absent" THEN {"absent"}
    ELSE IF file.kind = "corrupt" THEN {"EOFError", "OSError"}
    ELSE {"ok", "OSError"}

\* The classes derived from Exception among the outcomes of a read.
ExceptionSubclasses == {"UnpicklingError", "EOFError", "OSError"}

\* A read block with the first except clause only.
LogReadCaughtPickleOnly(readOutcome) ==
    readOutcome \in {"UnpicklingError", "EOFError"}

\* except (pickle.UnpicklingError, EOFError), then except Exception.
LogReadCaught(readOutcome) ==
    \/ readOutcome \in {"UnpicklingError", "EOFError"}
    \/ readOutcome \in ExceptionSubclasses

\* An exception leaves the call when the read raised one that no clause
\* caught; the write block catches every Exception itself.
LogCallRaises(readOutcome) ==
    readOutcome \notin {"ok", "absent"} /\ ~LogReadCaught(readOutcome)

\* The list the call continues with after the read block.
LoadedLogs(file, readOutcome) ==
    IF readOutcome = "ok" /\ file.kind = "list" THEN file.logs ELSE <<>>

\* A persistence step that writes only the new entry.
AppendedLogsOnlyNew(logs, log_entry) == <<log_entry>>

AppendedLogs(logs, log_entry) == Append(logs, log_entry)

\* Outcomes of open(log_path, 'wb') + pickle.dump: "ok"; "openfail" (open
\* raises, the file is untouched); "dumpfail" (open has truncated the file
\* and the dump raises: a truncated, unparsable file is left behind).
WriteOutcomes == {"ok", "openfail", "dumpfail"}

LogFileAfterWrite(file, logs, writeOutcome) ==
    CASE writeOutcome = "ok" -> LogList(logs)
      [] writeOutcome = "openfail" -> file
      [] writeOutcome = "dumpfail" -> LogCorrupt

NoLogCall ==
    [called |-> FALSE, before |-> LogAbsent, query |-> "",
     search_results |-> <<>>, user_selected_item_code |-> None,
     feedback_status |-> "", readOutcome |-> "absent", writeOutcome |-> "ok",
     outcome |-> "none"]

log_search_feedback(query, search_results, user_selected_item_code, readOutcome, writeOutcome) ==
    LET log_entry == LogEntry(query, search_results, user_selected_item_code)
        logs == AppendedLogs(LoadedLogs(logFile, readOutcome), log_entry)
        raises == LogCallRaises(readOutcome)
    IN
    /\ logFile' = IF raises THEN logFile
                  ELSE LogFileAfterWrite(logFile, logs, writeOutcome)
    /\ lastLog' = [called |-> TRUE, before |-> logFile, query |-> query,
                   search_results |-> search_results,
                   user_selected_item_code |-> user_selected_item_code,
                   feedback_status |-> log_entry.feedback_status,
                   readOutcome |-> readOutcome,
                   writeOutcome |-> IF raises THEN "none" ELSE writeOutcome,
                   outcome |-> IF raises THEN "raised" ELSE "returned"]

LogSearchFeedback ==
    /\ Len(logFile.logs) < MaxLedger
    /\ \E query \in Queries, search_results \in ResultLists,
          user_selected_item_code \in UserCodes,
          readOutcome \in LogReadOutcomes(logFile),
          writeOutcome \in WriteOutcomes :
          log_search_feedback(query, search_results, user_selected_item_code,
                              readOutcome, writeOutcome)
    /\ UNCHANGED <<cacheVars, searchVars, sessionVars, writerVars>>

LedgerInit ==
    /\ logFile \in {LogAbsent, LogCorrupt, LogNotAList, LogList(<<>>)}
    /\ lastLog = NoLogCall

(***************************************************************************)
(* The catalog and the embedding provider                                  *)
(***************************************************************************)
Row(code, desc) == [ItemCode |-> code, ItemDescription |-> desc]

\* Row i of the catalog in one of the two versions the business keeps.
CatalogRow(version, i) ==
    IF (version + i) % 2 = 0 THEN Row("A", "d1") ELSE Row("B", "d2")

\* The catalogs the source file may hold: up to MaxRows rows.
Catalogs ==
    { [i \in 1..n |-> CatalogRow(version, i)] : version \in {0, 1}, n \in 0..MaxRows }

\* model.encode on one description: a fixed vector per text.
Embed(desc) ==
    CASE desc = "d1" -> <<1, 0>>
      [] desc = "d2" -> <<0, 1>>
      [] OTHER -> <<0, 0>>

\* self.data['ItemDescription'].tolist()
Descriptions(rows) == [i \in 1..Len(rows) |-> rows[i].ItemDescription]

\* model.encode(descriptions): one vector per description, in order.
EncodeAll(descriptions) ==
    [i \in 1..Len(descriptions) |-> Embed(descriptions[i])]

\* self.embeddings: None, or a sequence of vectors.
NoEmbeddings == [isNone |-> TRUE, vecs |-> <<>>]
Embeddings(vecs) == [isNone |-> FALSE, vecs |-> vecs]

(***************************************************************************)
(* _load_or_create_cache                                                   *)
(***************************************************************************)
\* excel_last_modified_time = -1 when os.path.getmtime raises OSError.
Sentinel == 0 - 1

MtimeOutcomes == {"ok", "raise"}

FreshnessToken(source, mtimeOutcome) ==
    IF mtimeOutcome = "ok" THEN source.mtime ELSE Sentinel

\* Content of the cache file.  A "dict" may lack either key.
CacheAbsent ==
    [kind |-> "absent", hasFile |-> FALSE, file |-> 0,
     hasEmb |-> FALSE, emb |-> <<>>]
CacheCorrupt ==
    [kind |-> "corrupt", hasFile |-> FALSE, file |-> 0,
     hasEmb |-> FALSE, emb |-> <<>>]
CacheNotDict ==
    [kind |-> "notdict", hasFile |-> FALSE, file |-> 0,
     hasEmb |-> FALSE, emb |-> <<>>]
CacheDictNoEmbeddings(token) ==
    [kind |-> "dict", hasFile |-> TRUE, file |-> token,
     hasEmb |-> FALSE, emb |-> <<>>]

\* An entry that is stored under the sentinel whatever the token was.
CacheEntryTokenLost(token, vecs) ==
    [kind |-> "dict", hasFile |-> TRUE, file |-> Sentinel,
     hasEmb |-> TRUE, emb |-> vecs]

\* {'file': excel_last_modified_time, 'embeddings': self.embeddings}
CacheEntry(token, vecs) ==
    [kind |-> "dict", hasFile |-> TRUE, file |-> token,
     hasEmb |-> TRUE, emb |-> vecs]

\* Outcomes of open(cache_path, 'rb') + pickle.load once the path exists:
\* "ok"; "openfail" (open raises, outside the try block); "loadfail"
\* (pickle.load raises inside the try block).
CacheReadOutcomes(file) ==
    IF file.kind = "absent" THEN {"absent"}
    ELSE IF file.kind = "corrupt" THEN {"openfail", "loadfail"}
    ELSE {"ok", "openfail", "loadfail"}

\* A freshness test that ignores the token.
IsCacheHitAnyToken(file, token, readOutcome) ==
    /\ readOutcome = "ok"
    /\ file.kind = "dict"
    /\ file.hasEmb

\* A freshness test that never reuses the cache.
IsCacheHitNever(file, token, readOutcome) == FALSE

\* cache.get('file') == excel_last_modified_time, then cache['embeddings'].
IsCacheHit(file, token, readOutcome) ==
    /\ readOutcome = "ok"
    /\ file.kind = "dict"
    /\ file.hasFile
    /\ file.file = token
    /\ file.hasEmb

CacheFileAfterWrite(file, entry, writeOutcome) ==
    CASE writeOutcome = "ok" -> entry
      [] writeOutcome = "openfail" -> file
      [] writeOutcome = "dumpfail" -> CacheCorrupt

\* How the call ends: "raised" (the open error propagates), "hit", "empty"
\* (no descriptions), "encodefail", or "regen" (vectors generated).
CachePath(file, rows, token, readOutcome, encodeOk) ==
    IF readOutcome = "openfail" THEN "raised"
    ELSE IF IsCacheHit(file, token, readOutcome) THEN "hit"
    ELSE IF Descriptions(rows) = <<>> THEN "empty"
    ELSE IF ~encodeOk THEN "encodefail"
    ELSE "regen"

\* A regeneration that gives up its vectors when the cache write fails.
EmbeddingsAfterRegenLostOnWriteFailure(generated, writeOutcome) ==
    IF writeOutcome = "ok" THEN Embeddings(generated) ELSE NoEmbeddings

\* self.embeddings after encode succeeded: the write block (lines 126-131)
\* only logs a failure.
EmbeddingsAfterRegen(generated, writeOutcome) == Embeddings(generated)

NoCacheCall ==
    [called |-> FALSE, token |-> 0, mtimeOutcome |-> "ok",
     before |-> CacheAbsent, rows |-> <<>>, readOutcome |-> "absent",
     path |-> "none", encodeCalls |-> 0, write |-> "none"]

NoPrevCall ==
    [called |-> FALSE, token |-> 0, rows |-> <<>>, path |-> "none",
     encodeCalls |-> 0, write |-> "none"]

_load_or_create_cache(rows, mtimeOutcome, readOutcome, encodeOk, writeOutcome) ==
    LET token == FreshnessToken(excel, mtimeOutcome)
        path == CachePath(cacheFile, rows, token, readOutcome, encodeOk)
        generated == EncodeAll(Descriptions(rows))
    IN
    /\ embeddings' =
          CASE path = "hit" -> Embeddings(cacheFile.emb)
            [] path = "empty" -> Embeddings(<<>>)
            [] path = "regen" -> EmbeddingsAfterRegen(generated, writeOutcome)
            [] OTHER -> NoEmbeddings
    /\ cacheFile' =
          IF path = "regen"
          THEN CacheFileAfterWrite(cacheFile, CacheEntry(token, generated),
                                   writeOutcome)
          ELSE cacheFile
    /\ lastCache' =
          [called |-> TRUE, token |-> token, mtimeOutcome |-> mtimeOutcome,
           before |-> cacheFile, rows |-> rows, readOutcome |-> readOutcome,
           path |-> path,
           encodeCalls |-> IF path \in {"regen", "encodefail"} THEN 1 ELSE 0,
           write |-> IF path = "regen" THEN writeOutcome ELSE "none"]
    /\ prevCache' =
          IF lastCache.called /\ lastCache.token = token /\ lastCache.rows = rows
          THEN [called |-> TRUE, token |-> lastCache.token,
                rows |-> lastCache.rows, path |-> lastCache.path,
                encodeCalls |-> lastCache.encodeCalls, write |-> lastCache.write]
          ELSE NoPrevCall

NoSearchCall ==
    [called |-> FALSE, query |-> "", top_k |-> 0, min_score_threshold |-> 0,
     hits |-> <<>>, corpusSize |-> 0, encodeCalls |-> 0, searchCalls |-> 0,
     tryOutcome |-> "none", outcome |-> "none", results |-> <<>>]

\* __init__: self.data = self._load_data(); self.embeddings = None;
\* self._load_or_create_cache()
ItemMatcherInit ==
    /\ \E mtimeOutcome \in MtimeOutcomes,
          readOutcome \in CacheReadOutcomes(cacheFile),
          encodeOk \in BOOLEAN, writeOutcome \in WriteOutcomes :
          /\ data' = excel.rows
          /\ _load_or_create_cache(excel.rows, mtimeOutcome, readOutcome,
                                   encodeOk, writeOutcome)
    /\ lastSearch' = NoSearchCall
    /\ UNCHANGED <<excel, ledgerVars, sessionVars, writerVars>>

\* The business edits the catalog source: new rows, later modification time.
ModifyCatalog ==
    /\ excel.mtime < MaxMtime
    /\ \E rows \in Catalogs :
          excel' = [rows |-> rows, mtime |-> excel.mtime + 1]
    /\ UNCHANGED <<data, embeddings, cacheFile, lastCache, prevCache, ledgerVars, searchVars, sessionVars, writerVars>>

CacheInit ==
    /\ excel \in [rows : Catalogs, mtime : {1}]
    /\ data = <<>>
    /\ embeddings = NoEmbeddings
    /\ cacheFile \in {CacheAbsent, CacheNotDict, CacheDictNoEmbeddings(1)}
    /\ lastCache = NoCacheCall
    /\ prevCache = NoPrevCall

(***************************************************************************)
(* search                                                                  *)
(***************************************************************************)
\* Query strings: empty, whitespace only, and a proper query.
SearchQueries == {"", "   ", "pump"}

\* str.strip() on the strings of the model.
Strip(s) == IF s = "   " THEN "" ELSE s

\* An early-return test that does not strip the query.
IsBlankQueryNoStrip(query) == query = ""

\* not query or not query.strip()
IsBlankQuery(query) == query = "" \/ Strip(query) = ""

\* Values of top_k and of min_score_threshold; similarity scores and the
\* threshold are in 1/100000, reported scores in 1/10000.
TopKs == {1, 2}
Thresholds == {30000, 30002}
Scores == {40000, 30004, 29996}

\* A rounding that truncates towards minus infinity.
Round4Floor(score) == score \div 10

\* round(score, 4): to the nearest 1/10000, a tie going to the even digit.
Round4(score) ==
    LET q == score \div 10
        r == score % 10
    IN IF r < 5 THEN q
       ELSE IF r > 5 THEN q + 1
       ELSE IF q % 2 = 0 THEN q ELSE q + 1

Hit(corpus_id, score) == [corpus_id |-> corpus_id, score |-> score]

\* The order in which the primitive ranks n vectors: the ranking is not the
\* catalog order (here the last position comes first).
CorpusOrders(n) == { [i \in 1..n |-> n - i] }

\* util.semantic_search(query_embedding, self.embeddings, top_k)[0]:
\* min(top_k, n) hits over distinct corpus ids below n, scores descending.
HitLists(n, top_k) ==
    LET len == IF top_k < n THEN top_k ELSE n IN
    { [i \in 1..len |-> Hit(order[i], scores[i])] :
        order \in CorpusOrders(n),
        scores \in { sc \in [1..len -> Scores] :
                        \A i \in 1..len, j \in 1..len : i < j => sc[i] >= sc[j] } }

\* A loop that applies the threshold to the rounded score.
RECURSIVE AcceptedCountRounded(_, _, _)
AcceptedCountRounded(hits, i, min_score_threshold) ==
    IF i > Len(hits) THEN 0
    ELSE IF Round4(hits[i].score) * 10 < min_score_threshold THEN 0
    ELSE 1 + AcceptedCountRounded(hits, i + 1, min_score_threshold)

\* A loop without the threshold test.
RECURSIVE AcceptedCountNoThreshold(_, _, _)
AcceptedCountNoThreshold(hits, i, min_score_threshold) ==
    IF i > Len(hits) THEN 0
    ELSE 1 + AcceptedCountNoThreshold(hits, i + 1, min_score_threshold)

\* for hit in hits: if score < min_score_threshold: break -- the number of
\* hits taken from position i on before the loop ends.
RECURSIVE AcceptedCount(_, _, _)
AcceptedCount(hits, i, min_score_threshold) ==
    IF i > Len(hits) THEN 0
    ELSE IF hits[i].score < min_score_threshold THEN 0
    ELSE 1 + AcceptedCount(hits, i + 1, min_score_threshold)

\* self.data.iloc[idx] raises IndexError for a position past the last row.
IlocRaises(rows, hits, count) ==
    \E i \in 1..count : hits[i].corpus_id >= Len(rows)

\* A result list built in reverse order.
SearchResultsReversed(rows, hits, count) ==
    [i \in 1..count |->
        LET row == rows[hits[count + 1 - i].corpus_id + 1] IN
        Result(row.ItemCode, row.ItemDescription, Round4(hits[count + 1 - i].score))]

\* results.append({...}) for each accepted hit, in the order of the hits.
SearchResults(rows, hits, count) ==
    [i \in 1..count |->
        LET row == rows[hits[i].corpus_id + 1] IN
        Result(row.ItemCode, row.ItemDescription, Round4(hits[i].score))]

\* self.embeddings is None or len(self.embeddings) == 0
NoVectors(emb) == emb.isNone \/ Len(emb.vecs) = 0

\* tryOutcome: "ok", or "encodefail" when model.encode(query) raises.
search(query, top_k, min_score_threshold, tryOutcome, hits) ==
    LET early == IsBlankQuery(query) \/ NoVectors(embeddings)
        encoded == ~IsBlankQuery(query) /\ ~NoVectors(embeddings)
        looped == encoded /\ tryOutcome = "ok"
        count == IF looped THEN AcceptedCount(hits, 1, min_score_threshold) ELSE 0
        raises == looped /\ IlocRaises(data, hits, count)
    IN
    lastSearch' =
        [called |-> TRUE, query |-> query, top_k |-> top_k,
         min_score_threshold |-> min_score_threshold,
         hits |-> IF looped THEN hits ELSE <<>>,
         corpusSize |-> IF looped THEN Len(embeddings.vecs) ELSE 0,
         encodeCalls |-> IF encoded THEN 1 ELSE 0,
         searchCalls |-> IF looped THEN 1 ELSE 0,
         tryOutcome |-> IF encoded THEN tryOutcome ELSE "none",
         outcome |-> IF raises THEN "raised" ELSE "returned",
         results |-> IF looped /\ ~raises THEN SearchResults(data, hits, count)
                     ELSE <<>>]

\* A search call on a matcher whose construction has completed.
Search ==
    /\ lastCache.called
    /\ lastCache.path # "raised"
    /\ \E query \in SearchQueries, top_k \in TopKs,
          min_score_threshold \in Thresholds :
          IF IsBlankQuery(query) \/ NoVectors(embeddings)
          THEN search(query, top_k, min_score_threshold, "none", <<>>)
          ELSE \/ search(query, top_k, min_score_threshold, "encodefail", <<>>)
               \/ \E hits \in HitLists(Len(embeddings.vecs), top_k) :
                     search(query, top_k, min_score_threshold, "ok", hits)
    /\ UNCHANGED <<cacheVars, ledgerVars, sessionVars, writerVars>>

SearchInit == lastSearch = NoSearchCall

(***************************************************************************)
(* The session loop of __main__                                            *)
(***************************************************************************)
\* Lines typed at the query prompt and at the feedback prompt.
QueryInputs == {"exit", "EXIT", "", "   ", "pump", "valve"}
FeedbackInputs == {"n/a", "N/A", "", "A"}

\* matcher.search(user_input_query, top_k=5, min_score_threshold=0.3)
SessionTopK == 5
SessionThreshold == 30000

\* user_feedback_code after strip() and the normalisation of the loop.
NormalizedFeedback(line) ==
    LET user_feedback_code == Strip(line) IN
    IF Lower(user_feedback_code) = "n/a" THEN None
    ELSE IF Lower(user_feedback_code) = "skip" THEN user_feedback_code
    ELSE IF user_feedback_code = "" THEN None
    ELSE user_feedback_code

\* pc: "query" at the query prompt, "feedback" at the feedback prompt,
\* "exited" after the break, "crashed" when an exception left the loop.
\* query, search_results: the locals of the current iteration; feedback:
\* the last feedback line; searches, logged: the search and
\* log_search_feedback calls made; calls: the arguments of those
\* log_search_feedback calls, kept while allOk holds; allOk: every ledger
\* read and write of the session has succeeded.
NoSession ==
    [pc |-> "query", query |-> "", search_results |-> <<>>, feedback |-> "",
     searches |-> 0, logged |-> 0, calls |-> <<>>, allOk |-> TRUE]

SessionInit == session = NoSession

\* matcher = ItemMatcher(...) at the start of __main__.
Main ==
    /\ ~lastCache.called
    /\ ItemMatcherInit

\* One line at the query prompt, and the search it leads to.  A blank line
\* changes nothing: the loop comes back to the prompt.
ReadQuery ==
    /\ session.pc = "query"
    /\ lastCache.called
    /\ lastCache.path # "raised"
    /\ \E user_input_query \in QueryInputs :
          IF Lower(user_input_query) = "exit"
          THEN /\ session' = [session EXCEPT !.pc = "exited"]
               /\ UNCHANGED lastSearch
          ELSE IF Strip(user_input_query) = ""
          THEN UNCHANGED <<session, lastSearch>>
          ELSE /\ session.searches < MaxLedger
               /\ IF NoVectors(embeddings)
                  THEN search(user_input_query, SessionTopK, SessionThreshold,
                              "none", <<>>)
                  ELSE \/ search(user_input_query, SessionTopK,
                                 SessionThreshold, "encodefail", <<>>)
                       \/ \E hits \in HitLists(Len(embeddings.vecs), SessionTopK) :
                             search(user_input_query, SessionTopK,
                                    SessionThreshold, "ok", hits)
               /\ session' =
                     [session EXCEPT
                        !.pc = IF lastSearch'.outcome = "raised"
                               THEN "crashed" ELSE "feedback",
                        !.query = user_input_query,
                        !.searches = @ + 1,
                        !.search_results = lastSearch'.results]
    /\ UNCHANGED <<cacheVars, ledgerVars, writerVars>>

\* One line at the feedback prompt, and the log_search_feedback call.
ReadFeedback ==
    /\ session.pc = "feedback"
    /\ \E line \in FeedbackInputs, readOutcome \in LogReadOutcomes(logFile),
          writeOutcome \in WriteOutcomes :
          LET user_feedback_code == NormalizedFeedback(line)
              ok == session.allOk /\ readOutcome \in {"ok", "absent"}
                                  /\ writeOutcome = "ok"
          IN
          /\ log_search_feedback(session.query, session.search_results,
                                 user_feedback_code, readOutcome, writeOutcome)
          /\ session' =
                [session EXCEPT
                   !.pc = IF LogCallRaises(readOutcome)
                          THEN "crashed" ELSE "query",
                   !.feedback = line,
                   !.logged = @ + 1,
                   !.calls = IF ok
                             THEN Append(@, [query |-> session.query,
                                             search_results |-> session.search_results,
                                             user_selected_item_code |-> user_feedback_code])
                             ELSE <<>>,
                   !.allOk = ok]
    /\ UNCHANGED <<cacheVars, searchVars, writerVars>>

(***************************************************************************)
(* log_search_feedback called by several processes on one ledger           *)
(***************************************************************************)
Writers == {1, 2}

\* The code the k-th call of the run reports, so that records differ.
WriterCode(k) == <<"A", "B", "Z">>[((k - 1) % 3) + 1]

\* pc: "idle" outside the call, "loaded" between the read block and the
\* write block; logs: the local list of a process; entry: its log_entry;
\* started: calls begun; written: the entries of the calls whose write
\* succeeded; overlapped: some call has read while another was "loaded";
\* failed: some read or write of the ledger has raised.
NoWriters ==
    [pc |-> [w \in Writers |-> "idle"], logs |-> [w \in Writers |-> <<>>],
     entry |-> [w \in Writers |-> LogEntry("", <<>>, None)],
     started |-> 0, written |-> <<>>, overlapped |-> FALSE,
     failed |-> FALSE]

WritersInit == writers = NoWriters

\* The read block and logs.append(log_entry) of one process.
WriterRead ==
    /\ writers.started < MaxLedger
    /\ \E w \in Writers, readOutcome \in LogReadOutcomes(logFile) :
          LET log_entry == LogEntry("pump", <<>>, WriterCode(writers.started + 1)) IN
          /\ writers.pc[w] = "idle"
          /\ ~LogCallRaises(readOutcome)
          /\ writers' =
                [writers EXCEPT
                   !.pc[w] = "loaded",
                   !.logs[w] = AppendedLogs(LoadedLogs(logFile, readOutcome),
                                            log_entry),
                   !.entry[w] = log_entry,
                   !.started = @ + 1,
                   !.overlapped = @ \/ \E o \in Writers \ {w} :
                                          writers.pc[o] = "loaded",
                   !.failed = @ \/ readOutcome \notin {"ok", "absent"}]
    /\ UNCHANGED <<ledgerVars, cacheVars, searchVars, sessionVars>>

\* The write block of one process.
WriterWrite ==
    /\ \E w \in Writers, writeOutcome \in WriteOutcomes :
          /\ writers.pc[w] = "loaded"
          /\ logFile' = LogFileAfterWrite(logFile, writers.logs[w], writeOutcome)
          /\ writers' =
                [writers EXCEPT
                   !.pc[w] = "idle",
                   !.written = IF writeOutcome = "ok"
                               THEN Append(@, writers.entry[w]) ELSE @,
                   !.failed = @ \/ writeOutcome # "ok"]
    /\ UNCHANGED <<lastLog, cacheVars, searchVars, sessionVars>>

(***************************************************************************)
(* Specifications                                                          *)
(***************************************************************************)
Init == LedgerInit /\ CacheInit /\ SearchInit /\ SessionInit /\ WritersInit

LedgerNext == LogSearchFeedback

CacheNext == ItemMatcherInit \/ ModifyCatalog

SearchNext == ItemMatcherInit \/ ModifyCatalog \/ Search

SessionNext == Main \/ ReadQuery \/ ReadFeedback

WritersNext == WriterRead \/ WriterWrite

Next == LedgerNext \/ CacheNext \/ Search \/ ReadQuery \/ ReadFeedback \/ WritersNext

\* The whole program.
Spec == Init /\ [][Next]_vars

\* The feedback ledger alone, beside a matcher not yet constructed.
LedgerSpecInit ==
    Init /\ excel.rows = <<>> /\ cacheFile = CacheAbsent

LedgerSpec == LedgerSpecInit /\ [][LedgerNext]_vars

\* The embedding cache alone, beside a ledger that is never written.
CacheSpecInit ==
    Init /\ logFile = LogAbsent

CacheSpec == CacheSpecInit /\ [][CacheNext]_vars

\* Construction and search, from a full catalog and no cache file, beside a
\* ledger that is never written.
SearchSpecInit ==
    /\ Init /\ logFile = LogAbsent
    /\ Len(excel.rows) = MaxRows /\ excel.rows[1].ItemCode = "A"
    /\ cacheFile = CacheAbsent

SearchSpec == SearchSpecInit /\ [][SearchNext]_vars

\* One run of __main__: no ledger yet, a catalog of one row, and a cache
\* file that holds the entry of a longer catalog stored under the sentinel
\* token by an earlier run in which getmtime failed.
SessionSpecInit ==
    /\ LedgerInit /\ SearchInit /\ SessionInit /\ WritersInit
    /\ logFile = LogAbsent
    /\ excel = [rows |-> <<CatalogRow(0, 1)>>, mtime |-> 1]
    /\ data = <<>>
    /\ embeddings = NoEmbeddings
    /\ cacheFile =
          CacheEntry(Sentinel,
                     EncodeAll(Descriptions([i \in 1..MaxRows |-> CatalogRow(0, i)])))
    /\ lastCache = NoCacheCall
    /\ prevCache = NoPrevCall

SessionSpec == SessionSpecInit /\ [][SessionNext]_vars

\* Processes appending to one ledger, beside a matcher not yet constructed.
WritersSpecInit ==
    Init /\ excel.rows = <<>> /\ cacheFile = CacheAbsent

WritersSpec == WritersSpecInit /\ [][WritersNext]_vars

(***************************************************************************)
(* Properties of the feedback ledger (checked under LedgerSpec)            *)
(***************************************************************************)
\* The records a ledger file holds: those of a pickled list, else none.
PersistedRecords(file) == IF file.kind = "list" THEN file.logs ELSE <<>>

IsPrefix(s, t) == Len(s) <= Len(t) /\ SubSeq(t, 1, Len(s)) = s

NoUserCode(code) == code = None \/ code = ""

\* The record's fields that come straight from the call's arguments.
RecordsCall(rec, call) ==
    /\ rec.query = call.query
    /\ rec.all_suggested_results = call.search_results
    /\ rec.user_selected_item_code = call.user_selected_item_code
    /\ rec.feedback_status = call.feedback_status

\* C1: after a log_search_feedback call whose write succeeded, the persisted
\* ledger holds exactly the records it held before the call, unchanged and
\* in order, followed by the one new record.
C1_LedgerAppendLaw ==
    (lastLog.called /\ lastLog.writeOutcome = "ok") =>
        LET before == PersistedRecords(lastLog.before)
            after == PersistedRecords(logFile)
        IN /\ Len(after) = Len(before) + 1
           /\ SubSeq(after, 1, Len(before)) = before
           /\ RecordsCall(after[Len(after)], lastLog)

\* C2: over every step, failing reads and failing writes included, the
\* persisted ledger keeps the previously persisted ledger as a prefix.
C2_LedgerAppendOnly ==
    [][IsPrefix(PersistedRecords(logFile), PersistedRecords(logFile'))]_vars

FixedEnumeration ==
    {"No matches suggested", "Feedback skipped by user",
     "Top match confirmed by user", "Other suggested match selected by user",
     "New code provided by user", "No feedback given",
     "No specific feedback given (top match exists)"}

\* C4: with non-empty search_results and a non-empty user code the status is
\* decided by the first rule that applies: skip (any letter case), the top
\* result's code, another result's code, otherwise a new code; it is one
\* status of the fixed enumeration.
C4_UserCodePrecedence ==
    (/\ lastLog.called
     /\ lastLog.search_results # <<>>
     /\ ~NoUserCode(lastLog.user_selected_item_code)) =>
        LET res == lastLog.search_results
            code == lastLog.user_selected_item_code
        IN /\ lastLog.feedback_status \in FixedEnumeration
           /\ lastLog.feedback_status =
                IF code \in {"skip", "SKIP"}
                THEN "Feedback skipped by user"
                ELSE IF code = res[1].ItemCode
                THEN "Top match confirmed by user"
                ELSE IF \E i \in 2..Len(res) : res[i].ItemCode = code
                THEN "Other suggested match selected by user"
                ELSE "New code provided by user"

C4_Witness ==
    /\ lastLog.called
    /\ Len(lastLog.search_results) = 2
    /\ lastLog.search_results[1].ItemCode = "skip"
    /\ lastLog.user_selected_item_code = "SKIP"
    /\ lastLog.feedback_status = "Feedback skipped by user"

\* C5: with non-empty search_results and no user code (None or the empty
\* string) the status is the "no feedback given" status, under either of
\* the two names the specification allows for it.
C5_NoFeedbackGiven ==
    (/\ lastLog.called
     /\ lastLog.search_results # <<>>
     /\ NoUserCode(lastLog.user_selected_item_code)) =>
        lastLog.feedback_status \in
            {"No feedback given", "No specific feedback given (top match exists)"}

(***************************************************************************)
(* Properties of the embedding cache (checked under CacheSpec)             *)
(***************************************************************************)
\* The vectors the provider yields for the rows of a catalog.
FreshVectors(rows) == [i \in 1..Len(rows) |-> Embed(rows[i].ItemDescription)]

\* The stored entry carries a token, and it is not the call's token.
StaleEntry(call) ==
    /\ call.before.kind = "dict"
    /\ call.before.hasFile
    /\ call.before.file # call.token

\* The stored entry exists, parses and carries the call's token.
FreshEntry(call) ==
    /\ call.readOutcome = "ok"
    /\ call.before.kind = "dict"
    /\ call.before.hasFile
    /\ call.before.hasEmb
    /\ call.before.file = call.token

\* C6: after _load_or_create_cache returns for a non-empty catalog, on the
\* cache-hit path or with vectors regenerated, there are as many in-memory
\* vectors as catalog rows.
C6_OneVectorPerRow ==
    (/\ lastCache.called
     /\ lastCache.path \in {"hit", "regen"}
     /\ data # <<>>) =>
        /\ ~embeddings.isNone
        /\ Len(embeddings.vecs) = Len(data)

\* C7: when the modification time cannot be obtained, the call never takes
\* the cache-hit path.
C7_SentinelForcesRegeneration ==
    (/\ lastCache.called
     /\ lastCache.mtimeOutcome = "raise"
     /\ lastCache.path # "raised") =>
        lastCache.path # "hit"

\* C8 as stated: when the token of a complete stored entry differs from the
\* current one, the call leaves the full regenerated vectors in memory and the persisted
\* entry is the new {token, vectors}.
C8_StaleEntryReplaced ==
    (lastCache.called /\ StaleEntry(lastCache) /\ lastCache.before.hasEmb) =>
        /\ embeddings = Embeddings(FreshVectors(data))
        /\ cacheFile = [kind |-> "dict", hasFile |-> TRUE,
                        file |-> lastCache.token, hasEmb |-> TRUE,
                        emb |-> FreshVectors(data)]

\* C8 amended: when the stored token differs from the current one, the call
\* never takes the cache-hit path and never reuses stored vectors: the
\* in-memory vectors are None (open error, provider failure) or those of the
\* current catalog; the persisted entry is replaced by the new
\* {token, vectors} when the catalog is non-empty and provider and write
\* succeed, and otherwise it is the old entry untouched or a truncated file,
\* never a mixture.
C8_StaleEntryNotReused ==
    (lastCache.called /\ StaleEntry(lastCache)) =>
        /\ lastCache.path # "hit"
        /\ embeddings.isNone \/ embeddings.vecs = FreshVectors(data)
        /\ (lastCache.path = "regen" /\ lastCache.write = "ok") =>
              cacheFile = [kind |-> "dict", hasFile |-> TRUE,
                           file |-> lastCache.token, hasEmb |-> TRUE,
                           emb |-> FreshVectors(data)]
        /\ ~(lastCache.path = "regen" /\ lastCache.write = "ok") =>
              cacheFile \in {lastCache.before, CacheCorrupt}

C8_Witness ==
    /\ lastCache.called
    /\ StaleEntry(lastCache)
    /\ lastCache.before.hasEmb
    /\ lastCache.path = "regen"
    /\ lastCache.write = "ok"
    /\ embeddings.vecs # lastCache.before.emb
    /\ cacheFile.file = lastCache.token

\* Two consecutive calls with the same catalog and the same freshness token.
ConsecutiveSameToken ==
    /\ prevCache.called
    /\ lastCache.called
    /\ prevCache.token = lastCache.token
    /\ prevCache.rows = lastCache.rows

\* C9 as stated: over two consecutive calls with the same catalog and an
\* unchanged token the provider is invoked at most once in total.
C9_ProviderAtMostOnce ==
    ConsecutiveSameToken =>
        prevCache.encodeCalls + lastCache.encodeCalls <= 1

\* C9 amended: over two such calls, when the first was a cache hit or
\* regenerated and persisted its entry, and the second reads the entry, the
\* second is a pure cache hit (no provider call, no write) and the provider
\* is invoked at most once in total.
C9_SecondCallIsHit ==
    (/\ ConsecutiveSameToken
     /\ \/ prevCache.path = "hit"
        \/ prevCache.path = "regen" /\ prevCache.write = "ok"
     /\ lastCache.readOutcome = "ok") =>
        /\ lastCache.path = "hit"
        /\ lastCache.encodeCalls = 0
        /\ lastCache.write = "none"
        /\ cacheFile = lastCache.before
        /\ prevCache.encodeCalls + lastCache.encodeCalls <= 1

C9_Witness ==
    /\ ConsecutiveSameToken
    /\ prevCache.rows # <<>>
    /\ prevCache.path = "regen"
    /\ prevCache.write = "ok"
    /\ prevCache.encodeCalls = 1
    /\ lastCache.path = "hit"

\* C10: when the persisted entry exists, parses and carries the current
\* token, the call sets the in-memory vectors to the stored vectors, makes
\* no provider call and leaves the cache store unwritten.
C10_CacheHit ==
    (lastCache.called /\ FreshEntry(lastCache)) =>
        /\ embeddings = [isNone |-> FALSE, vecs |-> lastCache.before.emb]
        /\ lastCache.encodeCalls = 0
        /\ lastCache.write = "none"
        /\ cacheFile = lastCache.before

C10_Witness ==
    /\ lastCache.called
    /\ FreshEntry(lastCache)
    /\ lastCache.before.emb # <<>>
    /\ embeddings.vecs = lastCache.before.emb

\* C11: a persisted cache entry that cannot be opened, read or parsed, or
\* that has an unexpected shape, is treated as a cache miss: the call raises
\* nothing and goes on to regeneration.
C11_UnreadableCacheIsMiss ==
    (/\ lastCache.called
     /\ \/ lastCache.readOutcome \in {"openfail", "loadfail"}
        \/ lastCache.before.kind \in {"corrupt", "notdict"}
        \/ lastCache.before.kind = "dict" /\ ~lastCache.before.hasEmb) =>
        lastCache.path \in {"regen", "empty", "encodefail"}

\* C17: log_search_feedback returns normally whatever the ledger store
\* does: a missing, truncated, unreadable or non-list file counts as an
\* empty ledger, and a failing write raises nothing.
C17_LedgerErrorsAbsorbed ==
    lastLog.called =>
        /\ lastLog.outcome = "returned"
        /\ (lastLog.readOutcome # "ok" \/ lastLog.before.kind # "list") =>
              /\ lastLog.writeOutcome = "ok" => Len(logFile.logs) = 1
              /\ lastLog.writeOutcome = "openfail" => logFile = lastLog.before

C17_Witness ==
    /\ lastLog.called
    /\ lastLog.before.kind = "list"
    /\ lastLog.readOutcome = "OSError"
    /\ lastLog.writeOutcome = "dumpfail"
    /\ lastLog.outcome = "returned"

\* C19: after a cache write, failed or not, the cache store holds the
\* complete old entry (or is absent as before) or the complete new entry.
C19_CacheWriteAtomic ==
    (lastCache.called /\ lastCache.write # "none") =>
        \/ cacheFile = lastCache.before
        \/ cacheFile = [kind |-> "dict", hasFile |-> TRUE,
                        file |-> lastCache.token, hasEmb |-> TRUE,
                        emb |-> FreshVectors(data)]

(***************************************************************************)
(* Properties of search (checked under SearchSpec)                         *)
(***************************************************************************)
\* The reported score (in 1/10000) is the nearest one to the raw score (in
\* 1/100000).
ReportsScore(reported, score) ==
    reported * 10 - score <= 5 /\ score - reported * 10 <= 5

\* C12 as stated: every returned result carries a reported score that is at
\* least min_score_threshold.
C12_ReportedScoreAtLeastThreshold ==
    lastSearch.called =>
        \A i \in 1..Len(lastSearch.results) :
            lastSearch.results[i].Score * 10 >= lastSearch.min_score_threshold

\* C12 amended: every returned result comes from a hit whose unrounded score
\* is at least min_score_threshold; its reported score is that score rounded
\* to 4 decimals, so it is below the threshold by at most 0.00005.
C12_UnroundedScoreAtLeastThreshold ==
    lastSearch.called =>
        /\ Len(lastSearch.results) <= Len(lastSearch.hits)
        /\ \A i \in 1..Len(lastSearch.results) :
              /\ lastSearch.hits[i].score >= lastSearch.min_score_threshold
              /\ ReportsScore(lastSearch.results[i].Score, lastSearch.hits[i].score)
              /\ lastSearch.results[i].Score * 10 >= lastSearch.min_score_threshold - 5

C12_Witness ==
    /\ lastSearch.called
    /\ lastSearch.results # <<>>
    /\ lastSearch.hits[1].score >= lastSearch.min_score_threshold
    /\ lastSearch.results[1].Score * 10 < lastSearch.min_score_threshold

\* C13: search returns the longest prefix of the primitive's hits whose
\* unrounded scores are all at least min_score_threshold, hence at most
\* top_k entries; only the reported value is rounded.
C13_LongestAcceptedPrefix ==
    (lastSearch.called /\ lastSearch.searchCalls = 1
        /\ lastSearch.outcome = "returned") =>
        LET n == Len(lastSearch.results)
            hits == lastSearch.hits
            m == lastSearch.min_score_threshold
        IN /\ n <= Len(hits)
           /\ n <= lastSearch.top_k
           /\ \A i \in 1..n : hits[i].score >= m
           /\ n < Len(hits) => hits[n + 1].score < m
           /\ \A i \in 1..n :
                 /\ ReportsScore(lastSearch.results[i].Score, hits[i].score)
                 /\ lastSearch.results[i].ItemCode = data[hits[i].corpus_id + 1].ItemCode

C13_Witness ==
    /\ lastSearch.called
    /\ lastSearch.outcome = "returned"
    /\ Len(lastSearch.hits) = 2
    /\ Len(lastSearch.results) = 1
    /\ lastSearch.hits[2].score = 29996
    /\ lastSearch.min_score_threshold = 30000

\* C14: with hits delivered in descending score order, the reported scores
\* of the returned list are non-increasing and the entries keep the order in
\* which the primitive delivered them.
C14_ResultsKeepHitOrder ==
    (/\ lastSearch.called
     /\ lastSearch.outcome = "returned"
     /\ \A i \in 1..Len(lastSearch.hits), j \in 1..Len(lastSearch.hits) :
           i < j => lastSearch.hits[i].score >= lastSearch.hits[j].score) =>
        /\ \A i \in 1..Len(lastSearch.results), j \in 1..Len(lastSearch.results) :
              i < j => lastSearch.results[i].Score >= lastSearch.results[j].Score
        /\ \A i \in 1..Len(lastSearch.results) :
              LET row == data[lastSearch.hits[i].corpus_id + 1] IN
              /\ lastSearch.results[i].ItemCode = row.ItemCode
              /\ lastSearch.results[i].ItemDescription = row.ItemDescription

C14_Witness ==
    /\ lastSearch.called
    /\ lastSearch.outcome = "returned"
    /\ Len(lastSearch.results) = 2
    /\ lastSearch.results[1].Score > lastSearch.results[2].Score
    /\ lastSearch.results[1].ItemCode # lastSearch.results[2].ItemCode

\* C15: in every state reached after construction search returns a list
\* and raises nothing; it returns the empty list when embedding the query
\* fails.
C15_SearchNeverRaises ==
    lastSearch.called =>
        /\ lastSearch.outcome = "returned"
        /\ lastSearch.tryOutcome = "encodefail" => lastSearch.results = <<>>

\* C16: for an empty or whitespace-only query search returns the empty list
\* and invokes neither the embedding provider nor the similarity primitive,
\* whatever the vector set is.
C16_EmptyQueryLaw ==
    (lastSearch.called /\ lastSearch.query \in {"", "   "}) =>
        /\ lastSearch.outcome = "returned"
        /\ lastSearch.results = <<>>
        /\ lastSearch.encodeCalls = 0
        /\ lastSearch.searchCalls = 0

C16_Witness ==
    /\ lastSearch.called
    /\ lastSearch.query = "   "
    /\ ~embeddings.isNone
    /\ Len(embeddings.vecs) > 0
    /\ lastSearch.results = <<>>

\* C18: when regeneration succeeds and persisting the entry fails, the call
\* returns with the freshly generated vectors in memory, one per catalog
\* row, and later searches of the same matcher run against them.
C18_VectorsSurviveWriteFailure ==
    (/\ lastCache.called
     /\ lastCache.path = "regen"
     /\ lastCache.write \in {"openfail", "dumpfail"}) =>
        /\ ~embeddings.isNone
        /\ embeddings.vecs = FreshVectors(data)
        /\ Len(embeddings.vecs) = Len(data)
        /\ (lastSearch.called /\ lastSearch.query = "pump") =>
              /\ lastSearch.encodeCalls = 1
              /\ lastSearch.outcome = "returned"
              /\ lastSearch.tryOutcome = "ok" =>
                    /\ lastSearch.searchCalls = 1
                    /\ lastSearch.corpusSize = Len(data)

C18_Witness ==
    /\ lastCache.called
    /\ lastCache.path = "regen"
    /\ lastCache.write = "dumpfail"
    /\ cacheFile.kind = "corrupt"
    /\ lastSearch.called
    /\ lastSearch.corpusSize = Len(data)
    /\ lastSearch.results # <<>>

\* C20: with an empty catalog a completed _load_or_create_cache leaves an
\* empty vector sequence without a provider call, whatever the cache store
\* holds, and every later search returns the empty list without a provider
\* call and without an error.
C20_EmptyCatalog ==
    (lastCache.called /\ lastCache.path # "raised" /\ data = <<>>) =>
        /\ embeddings = [isNone |-> FALSE, vecs |-> <<>>]
        /\ lastCache.encodeCalls = 0
        /\ lastSearch.called =>
              /\ lastSearch.outcome = "returned"
              /\ lastSearch.results = <<>>
              /\ lastSearch.encodeCalls = 0

(***************************************************************************)
(* Properties of the session loop (checked under SessionSpec)              *)
(***************************************************************************)
\* Between two query prompts the loop has made one log_search_feedback call
\* per search call, with the query and the results of that search; at the
\* feedback prompt the search of the current query is the one call not yet
\* logged.
SearchThenLog ==
    /\ session.pc = "feedback" =>
          /\ session.searches = session.logged + 1
          /\ lastSearch.called
          /\ lastSearch.query = session.query
          /\ lastSearch.results = session.search_results
    /\ session.pc \in {"query", "exited"} =>
          /\ session.searches = session.logged
          /\ session.logged > 0 =>
                /\ lastLog.called
                /\ lastLog.query = session.query
                /\ lastLog.query = lastSearch.query
                /\ lastLog.search_results = lastSearch.results

\* A feedback line that is 'n/a' or empty reaches the ledger as None.
FeedbackPassedAsNone ==
    (session.logged > 0 /\ Lower(Strip(session.feedback)) \in {"n/a", ""}) =>
        lastLog.user_selected_item_code = None

\* While every ledger read and write succeeds, the ledger holds one record
\* per logged query, in query order.
LedgerGrowsInQueryOrder ==
    session.allOk =>
        /\ Len(PersistedRecords(logFile)) = session.logged
        /\ Len(session.calls) = session.logged
        /\ \A i \in 1..session.logged :
              /\ logFile.logs[i].query = session.calls[i].query
              /\ logFile.logs[i].all_suggested_results =
                    session.calls[i].search_results
              /\ logFile.logs[i].user_selected_item_code =
                    session.calls[i].user_selected_item_code

\* C21: in the session loop every proper query leads to one search call and
\* then one log_search_feedback call for the same query and results before
\* the next query is read (so no exception ends the loop), 'n/a' or empty
\* feedback is passed as None, and with all ledger reads and writes
\* succeeding the ledger grows by one record per query, in query order.
C21_SessionLoop ==
    /\ session.pc # "crashed"
    /\ SearchThenLog
    /\ FeedbackPassedAsNone
    /\ LedgerGrowsInQueryOrder

(***************************************************************************)
(* Properties of concurrent ledger writers (checked under WritersSpec)     *)
(***************************************************************************)
\* No process is inside log_search_feedback.
WritersIdle == \A w \in Writers : writers.pc[w] = "idle"

\* Every entry of a call whose write succeeded is in the ledger.
WrittenRecordsKept ==
    \A i \in 1..Len(writers.written) :
        \E j \in 1..Len(PersistedRecords(logFile)) :
            PersistedRecords(logFile)[j] = writers.written[i]

\* Two overlapping calls have both written successfully, with no failed
\* read or write, and the ledger lacks the entry of one of them.
LostUpdate ==
    /\ WritersIdle
    /\ writers.overlapped
    /\ ~writers.failed
    /\ Len(writers.written) >= 2
    /\ ~WrittenRecordsKept

\* C22: when the log_search_feedback calls on one ledger are serialized
\* (no call reads while another is between its read and its write), the
\* final ledger holds the record of every call whose write succeeded.
C22_SerializedCallsKeepRecords ==
    (WritersIdle /\ ~writers.overlapped) => WrittenRecordsKept

====
